---- MODULE Spec2Model ----
(***************************************************************************)
(* Model of the NBA contract analytics dashboard (app_jadawilliams.py):    *)
(* the value index, the contract efficiency rating and the rule-based      *)
(* natural-language-to-SQL translator with the SQL Chat page around it.    *)
(*                                                                         *)
(* Numbers.  The REAL columns are Python floats.  They are modelled as     *)
(* exact rationals [n, d]; stat and salary inputs carry one decimal and    *)
(* are given in tenths.  Float arithmetic agrees with the exact value up   *)
(* to an error far below the distance between two one-decimal roundings,   *)
(* except when the exact value lies exactly half way: there the float      *)
(* error decides, so round(value, 1) is modelled as yielding either        *)
(* neighbour.  A float division by zero inside a pandas Series yields      *)
(* inf / -inf / nan, which is modelled by the kind of the result.          *)
(*                                                                         *)
(* Text.  Strings are sequences of one-character strings, so lower(),      *)
(* the `in' substring test and re.findall(r'\d+') are computed on the      *)
(* characters.                                                             *)
(***************************************************************************)
EXTENDS Integers, Sequences, FiniteSets, TLC

VARIABLES
    row,            \* the player-season row handed to calculate_value_index
    value_index,    \* what calculate_value_index returned for row (tenths), or NoValue
    players_df,     \* get_all_players: sequence of player rows
    stats_df,       \* get_player_stats: sequence of stat rows
    contracts_df,   \* get_contracts: sequence of contract rows
    merged,         \* the merged frame with value_index and efficiency_rating
    user_query,     \* content of the SQL Chat text area
    nfrag,          \* number of fragments typed into the text area
    sql_query,      \* query shown by st.code after Search, or NoQuery
    warning,        \* TRUE when "Please enter a question!" is shown
    db,             \* nba_contracts.db: the committed rows of the five tables
    cache,          \* st.cache_data: per accessor, NoValue or the cached frame
    rng,            \* state of the np.random generator
    page,           \* the page of the last script run, "" before the first
    inputs,         \* the widget values of the last script run
    output,         \* what the last script run displayed
    history,        \* counts of the seedings and saves carried out so far
    pc,             \* concurrent start-up: each session's place in load_sample_data
    pending,        \* concurrent start-up: each session's uncommitted inserts
    lock            \* concurrent start-up: the session holding the write lock, or 0

vars == <<row, value_index, players_df, stats_df, contracts_df, merged,
          user_query, nfrag, sql_query, warning,
          db, cache, rng, page, inputs, output, history, pc, pending, lock>>

viVars  == <<row, value_index>>
effVars == <<players_df, stats_df, contracts_df, merged>>
nlVars  == <<user_query, nfrag, sql_query, warning>>
appVars == <<db, cache, rng, page, inputs, output, history>>
concVars == <<pc, pending, lock>>

\* a result not yet computed is the empty sequence, a result x is <<x>>
NoValue == << >>
NoQuery == << >>

\* the database file before init_database has created it, and an empty cache
EmptyDb ==
    [players |-> << >>, contracts |-> << >>, performance_stats |-> << >>,
     injuries |-> << >>, teams |-> << >>]
EmptyCache ==
    [get_all_players |-> NoValue, get_player_stats |-> NoValue, get_contracts |-> NoValue,
     get_injuries |-> NoValue, get_teams |-> NoValue]
NoInputs == [button |-> ""]
NoOutput ==
    [error |-> "", frame |-> << >>, payroll |-> NoValue, found |-> NoValue,
     listing |-> << >>, total_contracts |-> NoValue, total_injuries |-> NoValue,
     message |-> "", image |-> NoValue, calls |-> 0]
NoHistory == [seedings |-> 0, contract_saves |-> 0, injury_saves |-> 0]

\* the application and the sessions at rest, before any script run
AppIdle ==
    /\ db = EmptyDb /\ cache = EmptyCache /\ rng = 0 /\ page = ""
    /\ inputs = NoInputs /\ output = NoOutput /\ history = NoHistory
ConcIdle ==
    /\ pc = << >> /\ pending = << >> /\ lock = 0
NlIdle ==
    /\ user_query = << >> /\ nfrag = 0 /\ sql_query = NoQuery /\ warning = FALSE

-----------------------------------------------------------------------------
(* Exact rational arithmetic standing for the float operations.            *)

Abs(x) == IF x < 0 THEN -x ELSE x

RECURSIVE GCD(_, _)
GCD(a, b) == IF b = 0 THEN a ELSE GCD(b, a % b)

LCM(a, b) == (a \div GCD(a, b)) * b

\* n / d in lowest terms, d > 0
Rat(n, d) ==
    LET g == GCD(Abs(n), d)
    IN  [n |-> n \div g, d |-> d \div g]

RatLeq(x, y) == x.n * y.d <= y.n * x.d

\* Python's min(x, y)
RatMin(x, y) == IF RatLeq(y, x) /\ ~RatLeq(x, y) THEN y ELSE x

\* x / k and x * k for an integer k > 0
RatDivInt(x, k) == Rat(x.n, x.d * k)
RatMulInt(x, k) == Rat(x.n * k, x.d)

RatAdd(x, y) ==
    LET d == LCM(x.d, y.d)
    IN  Rat(x.n * (d \div x.d) + y.n * (d \div y.d), d)

\* a REAL column holding t tenths; an INTEGER column
Tenths(t) == Rat(t, 10)
Whole(k)  == Rat(k, 1)

\* round(x, 1), in tenths.  Off a tie the nearest tenth; on an exact tie
\* the float error of the computed sum decides between the two neighbours.
round1(x) ==
    LET t == 10 * x.n
        q == t \div x.d
        r == t - q * x.d
    IN  IF 2 * r < x.d THEN {q}
        ELSE IF 2 * r > x.d THEN {q + 1}
        ELSE {q, q + 1}

-----------------------------------------------------------------------------
(* Value index, src lines 267-277.                                         *)

\* the same computation with the field-goal term capped like the others
calculate_value_index_capped(r) ==
    LET ppg_norm     == RatMulInt(RatMin(RatDivInt(Tenths(r.points_per_game), 35), Whole(1)), 30)
        per_norm     == RatMulInt(RatMin(RatDivInt(Tenths(r.per), 35), Whole(1)), 25)
        ws_norm      == RatMulInt(RatMin(RatDivInt(Tenths(r.win_shares), 15), Whole(1)), 20)
        efficiency   == RatMulInt(RatMin(RatDivInt(Tenths(r.field_goal_pct), 60), Whole(1)), 15)
        availability == RatMulInt(RatDivInt(Whole(r.games_played), 82), 10)
        value == RatAdd(RatAdd(RatAdd(RatAdd(ppg_norm, per_norm), ws_norm), efficiency), availability)
    IN  round1(value)

\* the same computation with the weights of the last two terms exchanged
calculate_value_index_swapped(r) ==
    LET ppg_norm     == RatMulInt(RatMin(RatDivInt(Tenths(r.points_per_game), 35), Whole(1)), 30)
        per_norm     == RatMulInt(RatMin(RatDivInt(Tenths(r.per), 35), Whole(1)), 25)
        ws_norm      == RatMulInt(RatMin(RatDivInt(Tenths(r.win_shares), 15), Whole(1)), 20)
        efficiency   == RatMulInt(RatDivInt(Tenths(r.field_goal_pct), 60), 10)
        availability == RatMulInt(RatDivInt(Whole(r.games_played), 80), 15)
        value == RatAdd(RatAdd(RatAdd(RatAdd(ppg_norm, per_norm), ws_norm), efficiency), availability)
    IN  round1(value)

\* the set of values calculate_value_index(row) can return, in tenths
calculate_value_index(r) ==
    LET ppg_norm     == RatMulInt(RatMin(RatDivInt(Tenths(r.points_per_game), 35), Whole(1)), 30)
        per_norm     == RatMulInt(RatMin(RatDivInt(Tenths(r.per), 35), Whole(1)), 25)
        ws_norm      == RatMulInt(RatMin(RatDivInt(Tenths(r.win_shares), 15), Whole(1)), 20)
        efficiency   == RatMulInt(RatDivInt(Tenths(r.field_goal_pct), 60), 15)
        availability == RatMulInt(RatDivInt(Whole(r.games_played), 82), 10)
        value == RatAdd(RatAdd(RatAdd(RatAdd(ppg_norm, per_norm), ws_norm), efficiency), availability)
    IN  round1(value)

\* stat values the rows are drawn from (tenths; games as a count)
PpgValues == {0, 257, 350, 400}
PerValues == {0, 258, 350, 360}
WsValues  == {0, 72, 150, 160}
FgValues  == {0, 540, 600, 610, 1000}
GpValues  == {0, 71, 82}

StatRows ==
    [points_per_game : PpgValues, per : PerValues, win_shares : WsValues,
     field_goal_pct : FgValues, games_played : GpValues]

SaturationRow ==
    [points_per_game |-> 350, per |-> 350, win_shares |-> 150,
     field_goal_pct |-> 600, games_played |-> 82]

ZeroRow ==
    [points_per_game |-> 0, per |-> 0, win_shares |-> 0,
     field_goal_pct |-> 0, games_played |-> 0]

\* merged_df.apply(calculate_value_index, axis=1) on one row
ApplyValueIndex ==
    /\ value_index = NoValue
    /\ \E v \in calculate_value_index(row) : value_index' = <<v>>
    /\ UNCHANGED <<row, effVars, nlVars, appVars, concVars>>

\* the apply moves on to another row
NextRow ==
    /\ value_index # NoValue
    /\ row' \in StatRows
    /\ value_index' = NoValue
    /\ UNCHANGED <<effVars, nlVars, appVars, concVars>>

EmptyFrame == << >>

InitVI ==
    /\ row \in StatRows
    /\ value_index = NoValue
    /\ players_df = EmptyFrame /\ stats_df = EmptyFrame /\ contracts_df = EmptyFrame
    /\ merged = EmptyFrame
    /\ user_query = << >> /\ nfrag = 0 /\ sql_query = NoQuery /\ warning = FALSE
    /\ AppIdle /\ ConcIdle

NextVI == ApplyValueIndex \/ NextRow

SpecVI == InitVI /\ [][NextVI]_vars

-----------------------------------------------------------------------------
(* Properties of the value index.                                          *)

\* the exact score of a row over the common denominator ScoreDen, from the
\* closed formula 30 min(ppg/35,1) + 25 min(per/35,1) + 20 min(ws/15,1)
\*                + 15 (fg/60) + 10 (gp/82)
ScoreDen == LCM(LCM(350, 150), LCM(600, 82))

Min(a, b) == IF a <= b THEN a ELSE b

ScoreNum(r) ==
      30 * Min(r.points_per_game, 350) * (ScoreDen \div 350)
    + 25 * Min(r.per, 350) * (ScoreDen \div 350)
    + 20 * Min(r.win_shares, 150) * (ScoreDen \div 150)
    + 15 * r.field_goal_pct * (ScoreDen \div 600)
    + 10 * r.games_played * (ScoreDen \div 82)

\* C1: the value returned for a row is the closed formula's score (only the
\* ppg, per and win-share terms capped at 1) rounded to one decimal place:
\* it is a whole number of tenths at most 0.05 away from the exact score.
C1_ValueIndexFormula ==
    value_index # NoValue =>
        2 * Abs(value_index[1] * ScoreDen - 10 * ScoreNum(row)) <= ScoreDen

\* C1 witness: a row whose field-goal term exceeds its weight has been scored
C1_Witness ==
    /\ value_index # NoValue
    /\ row.field_goal_pct > 600
    /\ row.points_per_game > 350
    /\ row.games_played = 71

\* C2: the saturation row scores exactly 100 and the all-zero row exactly 0.
C2_SaturationAndZero ==
    value_index # NoValue =>
        /\ (row = SaturationRow => value_index[1] = 1000)
        /\ (row = ZeroRow => value_index[1] = 0)

\* C2 witness: the saturation row has been scored
C2_Witness == row = SaturationRow /\ value_index = <<1000>>

\* C3: for non-negative inputs the value index lies in 0..100.
C3_RangeZeroToHundred ==
    value_index # NoValue => (0 <= value_index[1] /\ value_index[1] <= 1000)

-----------------------------------------------------------------------------
(* Contract efficiency, src lines 279-284 and 526-530.                     *)

MaxPlayers      == 2
MaxStatRows     == 2
MaxContractRows == 2

PlayerIds == 1..MaxPlayers

SeqsUpTo(S, n) == UNION {[1..k -> S] : k \in 0..n}

\* stat profiles and salaries (tenths of $M) the frames are drawn from
EffStatProfiles ==
    { ZeroRow,
      [points_per_game |-> 257, per |-> 258, win_shares |-> 72,
       field_goal_pct |-> 540, games_played |-> 71] }
SalaryValues == {0, 300, 455}

PlayerRow(i) == [player_id |-> i]
StatRow(i, p) == [player_id |-> i] @@ p
ContractRow(i, s) == [player_id |-> i, annual_salary |-> s]

StatFrames     == SeqsUpTo({StatRow(i, p) : i \in PlayerIds, p \in EffStatProfiles}, MaxStatRows)
ContractFrames == SeqsUpTo({ContractRow(i, s) : i \in PlayerIds, s \in SalaryValues}, MaxContractRows)
PlayerFrames   == {[i \in 1..k |-> PlayerRow(i)] : k \in 0..MaxPlayers}

\* pd.merge's default suffixes ('_x', '_y') for a column that both frames
\* have besides the key; of the schema's columns only team occurs twice
\* (players and contracts)
SuffixX(c) == IF c = "team" THEN "team_x" ELSE c
SuffixY(c) == IF c = "team" THEN "team_y" ELSE c

\* the column a suffixed name stands for
Unsuffixed(n) == IF n \in {"team_x", "team_y"} THEN "team" ELSE n

\* one row of the merge: the key once, a shared column once per side under
\* its suffixed name, every other column under its own name
JoinRow(l, r) ==
    LET shared == (DOMAIN l \cap DOMAIN r) \ {"player_id"}
    IN  IF shared = {} THEN l @@ r
        ELSE [n \in {SuffixX(c) : c \in DOMAIN l} |-> l[Unsuffixed(n)]]
             @@ [n \in {SuffixY(c) : c \in DOMAIN r \ {"player_id"}} |-> r[Unsuffixed(n)]]

\* the rows of right whose player_id is pid, each joined to the left row l
RECURSIVE MatchRows(_, _)
MatchRows(l, right) ==
    IF right = << >> THEN << >>
    ELSE (IF Head(right).player_id = l.player_id THEN <<JoinRow(l, Head(right))>> ELSE << >>)
         \o MatchRows(l, Tail(right))

\* pd.merge(left, right, on='player_id'): the inner join, in the order of left
RECURSIVE Merge(_, _)
Merge(left, right) ==
    IF left = << >> THEN << >>
    ELSE MatchRows(Head(left), right) \o Merge(Tail(left), right)

\* a guarded rating: a zero salary rates 0
EfficiencyRating_guarded(vi, salary) ==
    IF salary = 0 THEN [kind |-> "finite", n |-> 0, d |-> 1]
    ELSE LET q == IF salary > 0 THEN Rat(vi, salary) ELSE Rat(-vi, -salary)
             e == RatMulInt(q, 10)
         IN  [kind |-> "finite", n |-> e.n, d |-> e.d]

\* (value_index / annual_salary) * 10 on float Series: a zero divisor gives
\* inf, -inf or nan and raises nothing
EfficiencyRating(vi, salary) ==
    IF salary = 0
    THEN [kind |-> IF vi > 0 THEN "inf" ELSE IF vi < 0 THEN "-inf" ELSE "nan",
          n |-> 0, d |-> 1]
    ELSE LET q == IF salary > 0 THEN Rat(vi, salary) ELSE Rat(-vi, -salary)
             e == RatMulInt(q, 10)
         IN  [kind |-> "finite", n |-> e.n, d |-> e.d]

\* the frames that the two column assignments can produce from the joined rows
RECURSIVE WithRatings(_)
WithRatings(rows) ==
    IF rows = << >> THEN { << >> }
    ELSE { << Head(rows) @@ [value_index |-> v,
                             efficiency_rating |-> EfficiencyRating(v, Head(rows).annual_salary)] >>
           \o rest : v \in calculate_value_index(Head(rows)), rest \in WithRatings(Tail(rows)) }

calculate_contract_efficiency ==
    /\ merged' \in WithRatings(Merge(stats_df, contracts_df))
    /\ UNCHANGED <<players_df, stats_df, contracts_df, viVars, nlVars, appVars, concVars>>

\* the head of show_analytics: the three-way merge and the two new columns
show_analytics ==
    /\ merged' \in WithRatings(Merge(Merge(players_df, stats_df), contracts_df))
    /\ UNCHANGED <<players_df, stats_df, contracts_df, viVars, nlVars, appVars, concVars>>

InitEff ==
    /\ players_df \in PlayerFrames
    /\ stats_df \in StatFrames
    /\ contracts_df \in ContractFrames
    /\ merged = EmptyFrame
    /\ row = ZeroRow /\ value_index = NoValue
    /\ user_query = << >> /\ nfrag = 0 /\ sql_query = NoQuery /\ warning = FALSE
    /\ AppIdle /\ ConcIdle

NextEff == calculate_contract_efficiency \/ show_analytics

SpecEff == InitEff /\ [][NextEff]_vars

\* C4: every merged row's efficiency rating is (value_index / annual_salary) * 10,
\* and a row with annual_salary = 0 and value_index > 0 is kept in the frame
\* with an infinite rating instead of a number or an error.
C4_EfficiencyRating ==
    \A i \in 1..Len(merged) :
        LET m == merged[i]
            e == m.efficiency_rating
        IN  /\ m.annual_salary # 0 =>
                /\ e.kind = "finite"
                /\ e.n * m.annual_salary = 10 * m.value_index * e.d
            /\ (m.annual_salary = 0 /\ m.value_index > 0) => e.kind = "inf"

\* C4 witness: the frame holds a rated row with zero salary and positive value
\* index next to a row with a positive salary
C4_Witness ==
    /\ \E i \in 1..Len(merged) : merged[i].annual_salary = 0 /\ merged[i].value_index > 0
    /\ \E i \in 1..Len(merged) : merged[i].annual_salary > 0 /\ merged[i].value_index > 0

-----------------------------------------------------------------------------
(* Natural-language-to-SQL translator, src lines 842-906, and the SQL Chat *)
(* page that calls it, src lines 805-829.                                  *)

UpperCase == <<"A", "B", "C", "D", "E", "F", "G", "H", "I", "J", "K", "L", "M", "N", "O", "P", "Q", "R", "S", "T", "U", "V", "W", "X", "Y", "Z">>
LowerCase == <<"a", "b", "c", "d", "e", "f", "g", "h", "i", "j", "k", "l", "m", "n", "o", "p", "q", "r", "s", "t", "u", "v", "w", "x", "y", "z">>
Digits    == {"0", "1", "2", "3", "4", "5", "6", "7", "8", "9"}

\* str.lower() that leaves capitals alone
Lower_identity(s) == s

\* str.lower() on one character and on a string
LowerChar(c) ==
    IF \E i \in 1..26 : UpperCase[i] = c
    THEN LowerCase[CHOOSE i \in 1..26 : UpperCase[i] = c]
    ELSE c
Lower(s) == [i \in 1..Len(s) |-> LowerChar(s[i])]

\* needle in hay
Contains(hay, needle) ==
    \E i \in 0..(Len(hay) - Len(needle)) : SubSeq(hay, i + 1, i + Len(needle)) = needle

\* a run that takes in small letters as well as digits
RECURSIVE DigitRun_word(_)
DigitRun_word(s) ==
    IF s = << >> THEN 0
    ELSE IF Head(s) \notin Digits /\ ~(\E i \in 1..26 : LowerCase[i] = Head(s)) THEN 0
    ELSE 1 + DigitRun_word(Tail(s))

\* the length of the run of digits at the head of s
RECURSIVE DigitRun(_)
DigitRun(s) ==
    IF s = << >> \/ Head(s) \notin Digits THEN 0 ELSE 1 + DigitRun(Tail(s))

\* re.findall(r'\d', s): every digit a match of its own
RECURSIVE FindAll_single(_)
FindAll_single(s) ==
    IF s = << >> THEN << >>
    ELSE IF Head(s) \in Digits THEN << <<Head(s)>> >> \o FindAll_single(Tail(s))
    ELSE FindAll_single(Tail(s))

\* re.findall(r'\d+', s): the maximal runs of digits, left to right
RECURSIVE FindAll(_)
FindAll(s) ==
    IF s = << >> THEN << >>
    ELSE LET k == DigitRun(s)
         IN  IF k = 0 THEN FindAll(Tail(s))
             ELSE <<SubSeq(s, 1, k)>> \o FindAll(SubSeq(s, k + 1, Len(s)))

KwOver          == <<"o", "v", "e", "r">>
KwMillion       == <<"m", "i", "l", "l", "i", "o", "n">>
KwDollar        == <<"$">>
KwTop           == <<"t", "o", "p">>
KwScorer        == <<"s", "c", "o", "r", "e", "r">>
KwRecurring     == <<"r", "e", "c", "u", "r", "r", "i", "n", "g">>
KwInjur         == <<"i", "n", "j", "u", "r">>
KwAverageSalary == <<"a", "v", "e", "r", "a", "g", "e", " ", "s", "a", "l", "a", "r", "y">>
KwPosition      == <<"p", "o", "s", "i", "t", "i", "o", "n">>
KwPointGuard    == <<"p", "o", "i", "n", "t", " ", "g", "u", "a", "r", "d">>
KwUnder         == <<"u", "n", "d", "e", "r">>

\* the conditions of the if / elif chain, on the lower-cased question
\* line 847 read as "over" and ("million" or "$")
MatchesSalary_grouped(q) == Contains(q, KwOver) /\ (Contains(q, KwMillion) \/ Contains(q, KwDollar))

\* the scorer test asking for "scorers", the injury test asking for "injury"
MatchesScorer_plural(q)    == Contains(q, KwTop) /\ Contains(q, KwScorer \o <<"s">>)
MatchesRecurring_injury(q) == Contains(q, KwRecurring) /\ Contains(q, KwInjur \o <<"y">>)

MatchesSalary(q)     == (Contains(q, KwOver) /\ Contains(q, KwMillion)) \/ Contains(q, KwDollar)
MatchesScorer(q)     == Contains(q, KwTop) /\ Contains(q, KwScorer)
MatchesRecurring(q)  == Contains(q, KwRecurring) /\ Contains(q, KwInjur)
MatchesAverage(q)    == Contains(q, KwAverageSalary) /\ Contains(q, KwPosition)
MatchesPointGuard(q) == Contains(q, KwPointGuard) /\ Contains(q, KwUnder)

\* The returned text is [head, param, tail]: the f-string's text before the
\* placeholder, the characters substituted for it, and the text after it.
\* Runs of white space in the literals are written as one blank.
Fixed(text) == [head |-> text, param |-> << >>, tail |-> ""]

SalaryHead == "SELECT p.name, p.position, p.team, c.annual_salary FROM players p JOIN contracts c ON p.player_id = c.player_id WHERE c.annual_salary > "
SalaryTail == " ORDER BY c.annual_salary DESC"
ScorerHead == "SELECT p.name, p.team, ps.points_per_game FROM players p JOIN performance_stats ps ON p.player_id = ps.player_id ORDER BY ps.points_per_game DESC LIMIT "
PointGuardHead == "SELECT p.name, p.age, p.team, ps.points_per_game, ps.assists_per_game FROM players p JOIN performance_stats ps ON p.player_id = ps.player_id WHERE p.position = 'PG' AND p.age < "
PointGuardTail == " ORDER BY ps.assists_per_game DESC"

SalaryQuery(amount) == [head |-> SalaryHead, param |-> amount, tail |-> SalaryTail]
ScorerQuery(amount) == [head |-> ScorerHead, param |-> amount, tail |-> ""]
PointGuardQuery(age) == [head |-> PointGuardHead, param |-> age, tail |-> PointGuardTail]

\* the recurring-injury query without its WHERE clause
RecurringQuery_all ==
    Fixed("SELECT p.name, p.team, i.injury_type, i.games_missed FROM players p JOIN injuries i ON p.player_id = i.player_id")

RecurringQuery ==
    Fixed("SELECT p.name, p.team, i.injury_type, i.games_missed FROM players p JOIN injuries i ON p.player_id = i.player_id WHERE i.recurring = 1")
AverageQuery ==
    Fixed("SELECT p.position, AVG(c.annual_salary) as avg_salary, COUNT(*) as player_count FROM players p JOIN contracts c ON p.player_id = c.player_id GROUP BY p.position ORDER BY avg_salary DESC")

\* a fallback listing every player
DefaultQuery_unlimited == Fixed("SELECT * FROM players")

DefaultQuery == Fixed("SELECT * FROM players LIMIT 10")

\* a default limit of 10
ScorerDefault_ten == <<"1", "0">>

\* amount = "5" of the scorer branch
ScorerDefault == <<"5">>

\* the chain with the recurring-injury test ahead of the scorer test
translate_natural_to_sql_reordered(query) ==
    LET query_lower == Lower(query)
        nums == FindAll(query_lower)
    IN  IF MatchesSalary(query_lower)
        THEN (IF nums # << >> THEN SalaryQuery(nums[1]) ELSE DefaultQuery)
        ELSE IF MatchesRecurring(query_lower)
        THEN RecurringQuery
        ELSE IF MatchesScorer(query_lower)
        THEN ScorerQuery(IF nums # << >> THEN nums[1] ELSE ScorerDefault)
        ELSE IF MatchesAverage(query_lower)
        THEN AverageQuery
        ELSE IF MatchesPointGuard(query_lower)
        THEN (IF nums # << >> THEN PointGuardQuery(nums[1]) ELSE DefaultQuery)
        ELSE DefaultQuery

translate_natural_to_sql(query) ==
    LET query_lower == Lower(query)
        nums == FindAll(query_lower)
    IN  IF MatchesSalary(query_lower)
        THEN (IF nums # << >> THEN SalaryQuery(nums[1]) ELSE DefaultQuery)
        ELSE IF MatchesScorer(query_lower)
        THEN ScorerQuery(IF nums # << >> THEN nums[1] ELSE ScorerDefault)
        ELSE IF MatchesRecurring(query_lower)
        THEN RecurringQuery
        ELSE IF MatchesAverage(query_lower)
        THEN AverageQuery
        ELSE IF MatchesPointGuard(query_lower)
        THEN (IF nums # << >> THEN PointGuardQuery(nums[1]) ELSE DefaultQuery)
        ELSE DefaultQuery

\* pieces of text the question is typed from
MaxFrags == 3

Fragments ==
    { <<"S", "h", "o", "w", " ", "m", "e", " ", "a", "l", "l", " ", "p", "l", "a", "y", "e", "r", "s", " ", "m", "a", "k", "i", "n", "g", " ", "o", "v", "e", "r", " ">>,
      <<"4", "0", " ", "m", "i", "l", "l", "i", "o", "n">>,
      <<" ", "m", "i", "l", "l", "i", "o", "n">>,
      <<"$">>,
      <<"t", "o", "p", " ", "5", " ", "s", "c", "o", "r", "e", "r">>,
      <<"T", "O", "P", " ", "s", "c", "o", "r", "e", "r">>,
      <<"r", "e", "c", "u", "r", "r", "i", "n", "g", " ", "i", "n", "j", "u", "r">>,
      <<"a", "v", "e", "r", "a", "g", "e", " ", "s", "a", "l", "a", "r", "y", " ", "b", "y", " ", "p", "o", "s", "i", "t", "i", "o", "n">>,
      <<"p", "o", "i", "n", "t", " ", "g", "u", "a", "r", "d", " ", "u", "n", "d", "e", "r", " ">>,
      <<"7", " ">>,
      <<"2", "5">>,
      <<"p", "l", "a", "y", "e", "r", "s">> }

\* the user types into the text area; the rerun shows no query
TypeQuestion ==
    /\ nfrag < MaxFrags
    /\ \E f \in Fragments : user_query' = user_query \o f
    /\ nfrag' = nfrag + 1
    /\ sql_query' = NoQuery
    /\ warning' = FALSE
    /\ UNCHANGED <<viVars, effVars, appVars, concVars>>

\* the user empties the text area
ClearQuestion ==
    /\ user_query # << >>
    /\ user_query' = << >>
    /\ nfrag' = 0
    /\ sql_query' = NoQuery
    /\ warning' = FALSE
    /\ UNCHANGED <<viVars, effVars, appVars, concVars>>

\* the Search button with a question: translate and show the query
Search ==
    /\ user_query # << >>
    /\ sql_query' = <<translate_natural_to_sql(user_query)>>
    /\ warning' = FALSE
    /\ UNCHANGED <<user_query, nfrag, viVars, effVars, appVars, concVars>>

\* the Search button with an empty text area
SearchEmpty ==
    /\ user_query = << >>
    /\ warning' = TRUE
    /\ sql_query' = NoQuery
    /\ UNCHANGED <<user_query, nfrag, viVars, effVars, appVars, concVars>>

InitNL ==
    /\ user_query = << >> /\ nfrag = 0 /\ sql_query = NoQuery /\ warning = FALSE
    /\ row = ZeroRow /\ value_index = NoValue
    /\ players_df = EmptyFrame /\ stats_df = EmptyFrame /\ contracts_df = EmptyFrame
    /\ merged = EmptyFrame
    /\ AppIdle /\ ConcIdle

NextNL == TypeQuestion \/ ClearQuestion \/ Search \/ SearchEmpty

SpecNL == InitNL /\ [][NextNL]_vars

-----------------------------------------------------------------------------
(* Properties of the translator.  They are stated on the question itself:  *)
(* its lower-cased characters, the keywords and its first run of digits.   *)

Shown == sql_query # NoQuery
Sql   == sql_query[1]

\* the question with every capital letter replaced by its small letter
QLower == [i \in 1..Len(user_query) |-> LowerChar(user_query[i])]

Has(words) == \E i \in 0..(Len(QLower) - Len(words)) :
                  \A k \in 1..Len(words) : QLower[i + k] = words[k]

HasInt == \E i \in 1..Len(user_query) : user_query[i] \in Digits

\* the first integer literal: the digits from the first digit of the question
\* up to the last digit before the next non-digit
FirstInt ==
    IF ~HasInt THEN << >> ELSE
    LET a == CHOOSE i \in 1..Len(user_query) :
                 user_query[i] \in Digits /\ \A j \in 1..(i - 1) : user_query[j] \notin Digits
        b == CHOOSE j \in a..Len(user_query) :
                 /\ \A k \in a..j : user_query[k] \in Digits
                 /\ (j = Len(user_query) \/ user_query[j + 1] \notin Digits)
    IN  [k \in 1..(b - a + 1) |-> user_query[a + k - 1]]

\* the five template tests in their order
TemplateOrder == <<"salary", "scorer", "recurring", "average", "pointguard">>

Satisfies(t) ==
    CASE t = "salary"     -> (Has(KwOver) /\ Has(KwMillion)) \/ Has(KwDollar)
      [] t = "scorer"     -> Has(KwTop) /\ Has(KwScorer)
      [] t = "recurring"  -> Has(KwRecurring) /\ Has(KwInjur)
      [] t = "average"    -> Has(KwAverageSalary) /\ Has(KwPosition)
      [] t = "pointguard" -> Has(KwPointGuard) /\ Has(KwUnder)

AnySatisfied == \E i \in 1..5 : Satisfies(TemplateOrder[i])

FirstSatisfied ==
    TemplateOrder[CHOOSE i \in 1..5 :
        Satisfies(TemplateOrder[i]) /\ \A j \in 1..(i - 1) : ~Satisfies(TemplateOrder[j])]

\* q is the query of template t, whatever its parameter
IsQueryOf(t, q) ==
    CASE t = "salary"     -> q.head = SalaryHead /\ q.tail = SalaryTail
      [] t = "scorer"     -> q.head = ScorerHead /\ q.tail = ""
      [] t = "recurring"  -> q = RecurringQuery
      [] t = "average"    -> q = AverageQuery
      [] t = "pointguard" -> q.head = PointGuardHead /\ q.tail = PointGuardTail

Parameterized == {"salary", "scorer", "pointguard"}

\* the first satisfied template wants a number and the question has none
FirstLacksNumber ==
    AnySatisfied /\ FirstSatisfied \in {"salary", "pointguard"} /\ ~HasInt

\* C5 as stated: whenever some template test is satisfied, the returned query
\* is the query of the first satisfied template in the fixed order.
C5_Original ==
    (Shown /\ AnySatisfied) => IsQueryOf(FirstSatisfied, Sql)

\* C5: the tests are made in the fixed order on the lower-cased question and
\* the first satisfied template's query is returned, except that the default
\* query is returned when that template is the salary or the point-guard
\* template and the question has no integer literal.
C5_FirstMatchWins ==
    (Shown /\ AnySatisfied) =>
        IF FirstLacksNumber THEN Sql = DefaultQuery
        ELSE IsQueryOf(FirstSatisfied, Sql)

\* C5 witness: a question satisfying the scorer and the recurring-injury
\* tests, typed with capitals, was answered with the scorer query
C5_Witness ==
    /\ Shown /\ Satisfies("scorer") /\ Satisfies("recurring") /\ ~Satisfies("salary")
    /\ user_query # QLower
    /\ Sql.head = ScorerHead

ShowMe40 == <<"S", "h", "o", "w", " ", "m", "e", " ", "a", "l", "l", " ", "p", "l", "a", "y", "e", "r", "s", " ", "m", "a", "k", "i", "n", "g", " ", "o", "v", "e", "r", " ", "4", "0", " ", "m", "i", "l", "l", "i", "o", "n">>

\* C6: a question containing "over" and "million" and an integer literal,
\* such as "Show me all players making over 40 million", gets the salary
\* query with the first integer literal of the text as the amount.
C6_OverMillion ==
    (Shown /\ Has(KwOver) /\ Has(KwMillion) /\ HasInt) =>
        /\ Sql = [head |-> SalaryHead, param |-> FirstInt, tail |-> SalaryTail]
        /\ (user_query = ShowMe40 => Sql.param = <<"4", "0">>)

\* C6 witness: the example question was answered
C6_Witness == Shown /\ user_query = ShowMe40 /\ Sql.head = SalaryHead

\* C6 witness of the general case: two integer literals, the first one taken
C6_WitnessFirst ==
    /\ Shown /\ Has(KwOver) /\ Has(KwMillion)
    /\ FirstInt = <<"7">> /\ Has(<<"4", "0">>) /\ Sql.param = <<"7">>

KwTop5Scorer == <<"t", "o", "p", " ", "5", " ", "s", "c", "o", "r", "e", "r">>

\* C7 as stated: every question containing "top 5 scorer" gets the scorer
\* query with LIMIT 5.
C7_Original ==
    (Shown /\ Has(KwTop5Scorer)) =>
        Sql = [head |-> ScorerHead, param |-> <<"5">>, tail |-> ""]

\* C7: a question containing "top 5 scorer" that does not satisfy the salary
\* test and whose first integer literal is that 5 gets the scorer query
\* with LIMIT 5.
C7_Top5Scorer ==
    (Shown /\ Has(KwTop5Scorer) /\ ~Satisfies("salary") /\ FirstInt = <<"5">>) =>
        Sql = [head |-> ScorerHead, param |-> <<"5">>, tail |-> ""]

\* C7 witness: "top 5 scorer" followed by another number was answered
C7_Witness ==
    /\ Shown /\ Has(KwTop5Scorer) /\ ~Satisfies("salary") /\ FirstInt = <<"5">>
    /\ Has(<<"2", "5">>)
    /\ Sql.param = <<"5">>

\* C8 as stated: every question containing "recurring" and "injur" gets the
\* fixed recurring-injury query, with nothing extracted from the question.
C8_Original ==
    (Shown /\ Has(KwRecurring) /\ Has(KwInjur)) =>
        (Sql = RecurringQuery /\ Sql.param = << >>)

\* C8: a question containing "recurring" and "injur" that satisfies neither
\* the salary test nor the scorer test gets the fixed recurring-injury query,
\* the same text whatever numbers the question holds.
C8_RecurringInjury ==
    (Shown /\ Has(KwRecurring) /\ Has(KwInjur)
           /\ ~Satisfies("salary") /\ ~Satisfies("scorer")) =>
        (Sql = RecurringQuery /\ Sql.param = << >>)

\* C8 witness: a recurring-injury question holding a number was answered
C8_Witness ==
    /\ Shown /\ Has(KwRecurring) /\ Has(KwInjur) /\ HasInt
    /\ ~Satisfies("salary") /\ ~Satisfies("scorer")
    /\ Sql.param = << >>

\* C9 as stated: the default query is returned exactly for the questions
\* that satisfy none of the five template tests.
C9_Original ==
    Shown => (Sql = DefaultQuery <=> ~AnySatisfied)

\* C9: the default query is returned exactly for the questions that satisfy
\* none of the five tests, or whose first satisfied test is the salary or
\* the point-guard test while the question has no integer literal.
C9_DefaultQuery ==
    Shown => (Sql = DefaultQuery <=> (~AnySatisfied \/ FirstLacksNumber))

\* C9 witness: a question satisfying no test was answered with the default
C9_Witness ==
    Shown /\ ~AnySatisfied /\ HasInt /\ Sql = Fixed("SELECT * FROM players LIMIT 10")

\* C9 witness of the other case: a dollar sign, a scorer phrase, no number
C9_WitnessNoNumber ==
    Shown /\ FirstLacksNumber /\ Satisfies("scorer") /\ Sql = DefaultQuery

\* C10 as stated: a parameterized template carries the first integer literal
\* and, when the question has none, is still emitted with a default value.
C10_Original ==
    (Shown /\ AnySatisfied /\ FirstSatisfied \in Parameterized) =>
        /\ IsQueryOf(FirstSatisfied, Sql)
        /\ Sql.param # << >>
        /\ HasInt => Sql.param = FirstInt

\* C10: a parameterized template carries the first integer literal of the
\* question; when the question has none, only the scorer template is still
\* emitted, with the default limit 5, and the salary and point-guard
\* templates give way to the default query.
C10_FirstLiteralOrDefault ==
    (Shown /\ AnySatisfied /\ FirstSatisfied \in Parameterized) =>
        IF HasInt
        THEN IsQueryOf(FirstSatisfied, Sql) /\ Sql.param = FirstInt
        ELSE IF FirstSatisfied = "scorer"
        THEN IsQueryOf("scorer", Sql) /\ Sql.param = <<"5">>
        ELSE Sql = DefaultQuery

\* C10 witness: a scorer question without a number was answered
C10_Witness ==
    Shown /\ AnySatisfied /\ FirstSatisfied = "scorer" /\ ~HasInt /\ Sql.head = ScorerHead

\* C10 witness: a point-guard question with a number was answered
C10_WitnessAge ==
    /\ Shown /\ AnySatisfied /\ FirstSatisfied = "pointguard"
    /\ HasInt /\ Sql.param = <<"2", "5">> /\ Sql.head = PointGuardHead

-----------------------------------------------------------------------------
(* The database, src lines 53-250.  A table is the sequence of its rows in *)
(* rowid order.  Rows carry the columns the pages compute with: REAL       *)
(* columns in tenths, a name as its characters, a DATE as a day number     *)
(* counted from 2023-07-01.  The columns left out (height, weight, draft,  *)
(* season, minutes, rebounds, assists, three-point, free-throw, usage,     *)
(* injury dates, city, conference, division, payroll, cap space, tax) are  *)
(* stored and displayed only.                                              *)

\* players, lines 155-171
SeedPlayers == <<
    [player_id |-> 2544, name |-> <<"L", "e", "B", "r", "o", "n", " ", "J", "a", "m", "e", "s">>,
     position |-> "SF", team |-> "Los Angeles Lakers", age |-> 39],
    [player_id |-> 201939, name |-> <<"S", "t", "e", "p", "h", "e", "n", " ", "C", "u", "r", "r", "y">>,
     position |-> "PG", team |-> "Golden State Warriors", age |-> 36],
    [player_id |-> 203507, name |-> <<"G", "i", "a", "n", "n", "i", "s", " ", "A", "n", "t", "e", "t", "o", "k", "o", "u", "n", "m", "p", "o">>,
     position |-> "PF", team |-> "Milwaukee Bucks", age |-> 29],
    [player_id |-> 203999, name |-> <<"N", "i", "k", "o", "l", "a", " ", "J", "o", "k", "i", "c">>,
     position |-> "C", team |-> "Denver Nuggets", age |-> 29],
    [player_id |-> 1629029, name |-> <<"L", "u", "k", "a", " ", "D", "o", "n", "c", "i", "c">>,
     position |-> "PG", team |-> "Dallas Mavericks", age |-> 25],
    [player_id |-> 203954, name |-> <<"J", "o", "e", "l", " ", "E", "m", "b", "i", "i", "d">>,
     position |-> "C", team |-> "Philadelphia 76ers", age |-> 30],
    [player_id |-> 201142, name |-> <<"K", "e", "v", "i", "n", " ", "D", "u", "r", "a", "n", "t">>,
     position |-> "SF", team |-> "Phoenix Suns", age |-> 36],
    [player_id |-> 203081, name |-> <<"D", "a", "m", "i", "a", "n", " ", "L", "i", "l", "l", "a", "r", "d">>,
     position |-> "PG", team |-> "Milwaukee Bucks", age |-> 34],
    [player_id |-> 202331, name |-> <<"K", "a", "w", "h", "i", " ", "L", "e", "o", "n", "a", "r", "d">>,
     position |-> "SF", team |-> "Los Angeles Clippers", age |-> 33],
    [player_id |-> 1628369, name |-> <<"J", "a", "y", "s", "o", "n", " ", "T", "a", "t", "u", "m">>,
     position |-> "SF", team |-> "Boston Celtics", age |-> 26],
    [player_id |-> 1629630, name |-> <<"T", "y", "r", "e", "s", "e", " ", "H", "a", "l", "i", "b", "u", "r", "t", "o", "n">>,
     position |-> "PG", team |-> "Indiana Pacers", age |-> 24],
    [player_id |-> 1630162, name |-> <<"A", "n", "t", "h", "o", "n", "y", " ", "E", "d", "w", "a", "r", "d", "s">>,
     position |-> "SG", team |-> "Minnesota Timberwolves", age |-> 23],
    [player_id |-> 203076, name |-> <<"A", "n", "t", "h", "o", "n", "y", " ", "D", "a", "v", "i", "s">>,
     position |-> "PF", team |-> "Los Angeles Lakers", age |-> 31],
    [player_id |-> 1628983, name |-> <<"S", "h", "a", "i", " ", "G", "i", "l", "g", "e", "o", "u", "s", "-", "A", "l", "e", "x", "a", "n", "d", "e", "r">>,
     position |-> "PG", team |-> "Oklahoma City Thunder", age |-> 26],
    [player_id |-> 1629027, name |-> <<"T", "r", "a", "e", " ", "Y", "o", "u", "n", "g">>,
     position |-> "PG", team |-> "Atlanta Hawks", age |-> 26] >>

\* performance_stats without stat_id, lines 198-214
SeedStats == <<
    [player_id |-> 2544, games_played |-> 71, points_per_game |-> 257, field_goal_pct |-> 540,
     win_shares |-> 72, per |-> 258],
    [player_id |-> 201939, games_played |-> 74, points_per_game |-> 264, field_goal_pct |-> 450,
     win_shares |-> 85, per |-> 274],
    [player_id |-> 203507, games_played |-> 73, points_per_game |-> 304, field_goal_pct |-> 611,
     win_shares |-> 118, per |-> 312],
    [player_id |-> 203999, games_played |-> 79, points_per_game |-> 264, field_goal_pct |-> 583,
     win_shares |-> 137, per |-> 298],
    [player_id |-> 1629029, games_played |-> 70, points_per_game |-> 339, field_goal_pct |-> 487,
     win_shares |-> 102, per |-> 287],
    [player_id |-> 203954, games_played |-> 39, points_per_game |-> 347, field_goal_pct |-> 529,
     win_shares |-> 98, per |-> 314],
    [player_id |-> 201142, games_played |-> 75, points_per_game |-> 271, field_goal_pct |-> 523,
     win_shares |-> 95, per |-> 278],
    [player_id |-> 203081, games_played |-> 58, points_per_game |-> 243, field_goal_pct |-> 422,
     win_shares |-> 68, per |-> 239],
    [player_id |-> 202331, games_played |-> 68, points_per_game |-> 237, field_goal_pct |-> 525,
     win_shares |-> 74, per |-> 253],
    [player_id |-> 1628369, games_played |-> 74, points_per_game |-> 269, field_goal_pct |-> 471,
     win_shares |-> 89, per |-> 250],
    [player_id |-> 1629630, games_played |-> 69, points_per_game |-> 201, field_goal_pct |-> 477,
     win_shares |-> 71, per |-> 226],
    [player_id |-> 1630162, games_played |-> 79, points_per_game |-> 259, field_goal_pct |-> 461,
     win_shares |-> 83, per |-> 234],
    [player_id |-> 203076, games_played |-> 76, points_per_game |-> 247, field_goal_pct |-> 556,
     win_shares |-> 94, per |-> 278],
    [player_id |-> 1628983, games_played |-> 75, points_per_game |-> 301, field_goal_pct |-> 535,
     win_shares |-> 108, per |-> 302],
    [player_id |-> 1629027, games_played |-> 54, points_per_game |-> 257, field_goal_pct |-> 430,
     win_shares |-> 57, per |-> 241] >>

\* injuries without injury_id, lines 224-229
SeedInjuries == <<
    [player_id |-> 2544, injury_type |-> "Ankle Sprain", games_missed |-> 8, recurring |-> FALSE],
    [player_id |-> 203954, injury_type |-> "Knee Surgery", games_missed |-> 32, recurring |-> TRUE],
    [player_id |-> 202331, injury_type |-> "Knee Inflammation", games_missed |-> 12, recurring |-> TRUE],
    [player_id |-> 203081, injury_type |-> "Calf Strain", games_missed |-> 18, recurring |-> FALSE] >>

\* teams without team_id, lines 237-243
SeedTeams == <<
    [team_name |-> "Los Angeles Lakers"],
    [team_name |-> "Golden State Warriors"],
    [team_name |-> "Milwaukee Bucks"],
    [team_name |-> "Denver Nuggets"],
    [team_name |-> "Dallas Mavericks"] >>


\* The np.random generator: its state decides every draw.  It is modelled
\* as a congruential generator with RngModulus states; uniform(lo, hi)
\* returns lo + (hi - lo) * state / RngModulus, cut to tenths.
RngModulus == 3
RngStates == 0..(RngModulus - 1)
NextRng(r) == (r + 1) % RngModulus

RECURSIVE RngAt(_, _)
RngAt(r, k) == IF k = 0 THEN r ELSE RngAt(NextRng(r), k - 1)

\* np.random.uniform(lo, hi) in tenths, lo and hi in $M
Uniform(lo, hi, r) == 10 * lo + ((hi - lo) * 10 * r) \div RngModulus

\* the day numbers of '2023-07-01' and '2027-06-30'
SeedStartDate == 0
SeedEndDate == 1460

\* lines 176-190: the contract generated for the i-th sample player
SeedContract(i, r) ==
    LET p == SeedPlayers[i]
        u == RngAt(r, i - 1)
        salary == IF p.age < 26 THEN Uniform(25, 40, u)
                  ELSE IF p.age < 30 THEN Uniform(35, 52, u)
                  ELSE Uniform(30, 48, u)
    IN  [player_id |-> p.player_id, team |-> p.team,
         start_date |-> SeedStartDate, end_date |-> SeedEndDate,
         total_value |-> salary * 4, annual_salary |-> salary,
         contract_type |-> "Max Contract"]

SeedContracts(r) == [i \in 1..Len(SeedPlayers) |-> SeedContract(i, r)]

\* INSERT OR IGNORE INTO players: a row whose player_id is taken is skipped
RECURSIVE InsertOrIgnore(_, _)
InsertOrIgnore(table, rows) ==
    IF rows = << >> THEN table
    ELSE IF \E i \in 1..Len(table) : table[i].player_id = Head(rows).player_id
         THEN InsertOrIgnore(table, Tail(rows))
         ELSE InsertOrIgnore(Append(table, Head(rows)), Tail(rows))

\* INSERT INTO a table with an AUTOINCREMENT key named id: nothing is ever
\* deleted, so the next key is the number of rows plus one
RECURSIVE InsertAuto(_, _, _)
InsertAuto(table, id, rows) ==
    IF rows = << >> THEN table
    ELSE InsertAuto(Append(table, (id :> (Len(table) + 1)) @@ Head(rows)), id, Tail(rows))

\* load_sample_data that seeds without looking at players first
load_sample_data_unchecked(d, r) ==
    [db |-> [players           |-> InsertOrIgnore(d.players, SeedPlayers),
             contracts         |-> InsertAuto(d.contracts, "contract_id", SeedContracts(r)),
             performance_stats |-> InsertAuto(d.performance_stats, "stat_id", SeedStats),
             injuries          |-> InsertAuto(d.injuries, "injury_id", SeedInjuries),
             teams             |-> InsertAuto(d.teams, "team_id", SeedTeams)],
     rng |-> RngAt(r, Len(SeedPlayers)),
     seeded |-> TRUE]

\* load_sample_data(conn), lines 145-250, run by one session alone: the
\* tables and the generator afterwards, and whether the inserts were made
load_sample_data(d, r) ==
    IF Len(d.players) > 0
    THEN [db |-> d, rng |-> r, seeded |-> FALSE]
    ELSE [db |-> [players           |-> InsertOrIgnore(d.players, SeedPlayers),
                  contracts         |-> InsertAuto(d.contracts, "contract_id", SeedContracts(r)),
                  performance_stats |-> InsertAuto(d.performance_stats, "stat_id", SeedStats),
                  injuries          |-> InsertAuto(d.injuries, "injury_id", SeedInjuries),
                  teams             |-> InsertAuto(d.teams, "team_id", SeedTeams)],
          rng |-> RngAt(r, Len(SeedPlayers)),
          seeded |-> TRUE]

-----------------------------------------------------------------------------
(* The cached accessors, src lines 290-313.  _conn is not part of the      *)
(* cache key, so each accessor has one cache entry.                        *)

TableOf ==
    [get_all_players |-> "players", get_player_stats |-> "performance_stats",
     get_contracts |-> "contracts", get_injuries |-> "injuries", get_teams |-> "teams"]

Accessors == DOMAIN TableOf

\* what accessor a returns with cache c over tables d
Cached(c, d, a) == IF c[a] # NoValue THEN c[a][1] ELSE d[TableOf[a]]

\* the cache after the accessors in called have returned
Fill(c, d, called) ==
    [a \in Accessors |-> IF a \in called THEN <<Cached(c, d, a)>> ELSE c[a]]

-----------------------------------------------------------------------------
(* The pages, src lines 330-780.  A page is given the frames its accessors *)
(* returned and the widget values, and yields what it displays and the     *)
(* exception, if any, that ends the script run.                            *)

\* the columns of the tables and of pd.merge(left, right, on='player_id')
PlayerColumns   == DOMAIN SeedPlayers[1]
StatColumns     == DOMAIN SeedStats[1] \cup {"stat_id"}
ContractColumns == DOMAIN SeedContract(1, 0) \cup {"contract_id"}

MergeColumns(L, R) ==
    LET shared == (L \cap R) \ {"player_id"}
    IN  {IF c \in shared THEN SuffixX(c) ELSE c : c \in L}
        \cup {IF c \in shared THEN SuffixY(c) ELSE c : c \in R}

\* columns of the frame the Dashboard, Player Database and Analytics pages build
JoinedColumns ==
    MergeColumns(MergeColumns(PlayerColumns, StatColumns), ContractColumns) \cup {"value_index"}

\* df['value_index'] = df.apply(calculate_value_index, axis=1)
RECURSIVE WithValueIndex(_)
WithValueIndex(rows) ==
    IF rows = << >> THEN { << >> }
    ELSE { << Head(rows) @@ [value_index |-> v] >> \o rest :
               v \in calculate_value_index(Head(rows)), rest \in WithValueIndex(Tail(rows)) }

\* df['annual_salary'].sum()
RECURSIVE SumSalary(_)
SumSalary(rows) ==
    IF rows = << >> THEN 0 ELSE Head(rows).annual_salary + SumSalary(Tail(rows))

\* lines 378-380, 453-454, 527-528
Joined(f) == Merge(Merge(f.get_all_players, f.get_player_stats), f.get_contracts)

\* show_dashboard, lines 370-439: the payroll metric is drawn, then the top
\* performer needs a row and the two top-5 tables need a column named team
show_dashboard(f, in) ==
    { [NoOutput EXCEPT
         !.frame = merged_df,
         !.payroll = <<SumSalary(merged_df)>>,
         !.error = IF merged_df = << >> THEN "ValueError"
                   ELSE IF "team" \notin JoinedColumns THEN "KeyError"
                   ELSE ""] :
      merged_df \in WithValueIndex(Joined(f)) }

\* lines 468-474; Series.str.contains(search_name, case=False), for a search
\* text of letters and blanks, where the regular expression is the text
FilterPlayers(full_df, search_name, filter_position, filter_team) ==
    LET ByName(r) == search_name = << >> \/ Contains(Lower(r.name), Lower(search_name))
        ByPosition(r) == filter_position = "All" \/ r.position = filter_position
        ByTeam(r) == filter_team = "All" \/ r.team = filter_team
    IN  SelectSeq(SelectSeq(SelectSeq(full_df, ByName), ByPosition), ByTeam)

\* show_player_database, lines 445-513: the team selectbox at line 465
\* reads full_df['team'] before any filter is applied or row displayed
show_player_database(f, in) ==
    { IF "team" \notin JoinedColumns
      THEN [NoOutput EXCEPT !.frame = full_df, !.error = "KeyError"]
      ELSE LET filtered_df == FilterPlayers(full_df, in.search_name,
                                            in.filter_position, in.filter_team)
           IN  [NoOutput EXCEPT !.frame = full_df,
                                !.found = <<Len(filtered_df)>>,
                                !.listing = filtered_df] :
      full_df \in WithValueIndex(Joined(f)) }

\* show_analytics, lines 519-632: the scatter at line 538 asks for a column
\* named team
show_analytics_page(f, in) ==
    { [NoOutput EXCEPT !.frame = full_df,
                       !.error = IF "team" \notin JoinedColumns THEN "ValueError" ELSE ""] :
      full_df \in WithRatings(Joined(f)) }

\* lines 680-681 and 761-762: .values[0] of the rows with the selected name
FormError(f) == IF f.get_all_players = << >> THEN "IndexError" ELSE ""

\* show_contract_manager without the button, lines 638-694
show_contract_manager(f, in) ==
    { [NoOutput EXCEPT !.total_contracts = <<Len(f.get_contracts)>>,
                       !.error = FormError(f)] }

\* show_injury_tracker without the button, lines 711-769
show_injury_tracker(f, in) ==
    { [NoOutput EXCEPT !.total_injuries = <<Len(f.get_injuries)>>,
                       !.error = FormError(f)] }

\* show_sql_chat without the button, lines 786-805
show_sql_chat(f, in) == { NoOutput }

Pages == {"Dashboard", "Player Database", "Analytics", "Contract Manager",
          "Injury Tracker", "SQL Chat"}

\* the accessors main calls for the sidebar, lines 347-350, and each page calls
SidebarAccessors == {"get_all_players", "get_contracts", "get_injuries"}
PageAccessors(pg) ==
    CASE pg \in {"Dashboard", "Player Database", "Analytics"} ->
             {"get_all_players", "get_player_stats", "get_contracts"}
      [] pg = "Contract Manager" -> {"get_contracts", "get_all_players"}
      [] pg = "Injury Tracker"   -> {"get_injuries", "get_all_players"}
      [] OTHER -> {}

\* lines 353-364
PageOutputs(pg, f, in) ==
    CASE pg = "Dashboard"        -> show_dashboard(f, in)
      [] pg = "Player Database"  -> show_player_database(f, in)
      [] pg = "Analytics"        -> show_analytics_page(f, in)
      [] pg = "Contract Manager" -> show_contract_manager(f, in)
      [] pg = "Injury Tracker"   -> show_injury_tracker(f, in)
      [] pg = "SQL Chat"         -> show_sql_chat(f, in)

\* the frames the accessors return with cache c over tables d
Frames(c, d) == [a \in Accessors |-> Cached(c, d, a)]

\* main(), lines 330-364, for page pg without a button pressed: the results
\* the script run can have from tables d, generator r and cache c
ScriptRun(pg, in, d, r, c) ==
    LET s == load_sample_data(d, r)
        called == SidebarAccessors \cup PageAccessors(pg)
    IN  { [db |-> s.db, rng |-> s.rng, seeded |-> s.seeded,
           cache |-> Fill(c, s.db, called), output |-> o] :
          o \in PageOutputs(pg, Frames(c, s.db), in) }

-----------------------------------------------------------------------------
(* One session using the application: every action is one interaction,    *)
(* that is one run of the script, or for a Save button the run that        *)
(* inserts followed by the rerun it asks for.                              *)

MaxContractSaves == 1
MaxInjurySaves   == 1

\* the day number of datetime.now(), the default start date of the form
Today == 1219

\* widget values the session chooses from: places in the player selectbox,
\* slider and number_input values inside the widgets' ranges, search texts
FormPlayerChoices == {6}
FormYears         == {1, 5}
FormGamesMissed   == {0, 5}

\* a number_input whose smallest value is 0
FormSalaries_zero == {0, 600}

\* st.number_input("Annual Salary ($M)", min_value=1.0, max_value=60.0,
\* step=0.5), in tenths
FormSalaries == {10, 600}
SearchTexts       == { << >>, <<"l", "E">> }
FilterPositions   == {"All", "PG"}

\* st.cache_data.clear() forgotten
AfterClear_kept(c) == c

\* st.cache_data.clear(), lines 704 and 779
AfterClear(c) == EmptyCache

\* the row of the first player named like the i-th entry of the selectbox,
\* lines 680-682 and 761-762
SelectedPlayer(players, i) ==
    players[CHOOSE k \in 1..Len(players) :
                /\ players[k].name = players[i].name
                /\ \A j \in 1..(k - 1) : players[j].name # players[i].name]

\* lines 688-693 and 701: the row the contract form submits
ContractFormRow(players, in) ==
    LET p == SelectedPlayer(players, in.player)
    IN  [player_id |-> p.player_id, team |-> p.team,
         start_date |-> in.start_date, end_date |-> in.start_date + 365 * in.years,
         total_value |-> in.annual_salary * in.years, annual_salary |-> in.annual_salary,
         contract_type |-> in.contract_type]

\* lines 763-769 and 776: the row the injury form submits
InjuryFormRow(players, in) ==
    LET p == SelectedPlayer(players, in.player)
    IN  [player_id |-> p.player_id, injury_type |-> in.injury_type,
         games_missed |-> in.games_missed, recurring |-> in.recurring]

\* a save that overwrites the player's latest row instead of adding one
InsertRow_replace(table, id, r) ==
    IF \E i \in 1..Len(table) : table[i].player_id = r.player_id
    THEN LET k == CHOOSE i \in 1..Len(table) :
                      /\ table[i].player_id = r.player_id
                      /\ \A j \in (i + 1)..Len(table) : table[j].player_id # r.player_id
         IN  [table EXCEPT ![k] = (id :> k) @@ r]
    ELSE InsertAuto(table, id, <<r>>)

\* cursor.execute('INSERT INTO ...') and conn.commit(), lines 697-702, 772-777
InsertRow(table, id, r) == InsertAuto(table, id, <<r>>)

\* the end of every interaction
Finish(res, pg, in, saves) ==
    /\ db' = res.db /\ rng' = res.rng /\ cache' = res.cache /\ output' = res.output
    /\ page' = pg /\ inputs' = in
    /\ history' = [seedings |-> history.seedings + (IF res.seeded THEN 1 ELSE 0),
                   contract_saves |-> history.contract_saves + saves[1],
                   injury_saves |-> history.injury_saves + saves[2]]
    /\ UNCHANGED <<viVars, effVars, nlVars, concVars>>

Render(pg, in) ==
    \E res \in ScriptRun(pg, in, db, rng, cache) : Finish(res, pg, in, <<0, 0>>)

RenderDashboard       == Render("Dashboard", NoInputs)
RenderAnalytics       == Render("Analytics", NoInputs)
RenderContractManager == Render("Contract Manager", NoInputs)
RenderInjuryTracker   == Render("Injury Tracker", NoInputs)
RenderSqlChat         == Render("SQL Chat", NoInputs)

\* the positions the selectbox at line 463 offers
PositionOptions(d) ==
    LET full_df == Joined(Frames(cache, d))
    IN  {"All"} \cup {full_df[i].position : i \in 1..Len(full_df)}

\* the Player Database page: the widgets start from their defaults when the
\* page is entered and take the user's values on the runs that follow
RenderPlayerDatabase ==
    \E sn \in SearchTexts, fp \in PositionOptions(db) \cap FilterPositions :
        /\ page # "Player Database" => (sn = << >> /\ fp = "All")
        /\ Render("Player Database",
                  [button |-> "", search_name |-> sn, filter_position |-> fp,
                   filter_team |-> "All"])

\* the Save Contract button, lines 696-705: the run that inserts, commits
\* and clears the cache, then the rerun of the page
SaveContract ==
    /\ page = "Contract Manager" /\ output.error = ""
    /\ history.contract_saves < MaxContractSaves
    /\ \E i \in FormPlayerChoices, y \in FormYears, sal \in FormSalaries :
        LET in == [button |-> "Save Contract", player |-> i, years |-> y,
                   annual_salary |-> sal, start_date |-> Today,
                   contract_type |-> "Max Contract"]
            s  == load_sample_data(db, rng)
            c1 == Fill(cache, s.db, SidebarAccessors \cup PageAccessors("Contract Manager"))
            names_df == c1.get_all_players[1]
            d2 == [s.db EXCEPT !.contracts =
                       InsertRow(@, "contract_id", ContractFormRow(names_df, in))]
        IN  /\ i <= Len(names_df)
            /\ \E res \in ScriptRun("Contract Manager", in, d2, s.rng, AfterClear(c1)) :
                   Finish([res EXCEPT !.seeded = s.seeded \/ res.seeded],
                          "Contract Manager", in, <<1, 0>>)

\* the Save Injury Record button, lines 771-780
SaveInjury ==
    /\ page = "Injury Tracker" /\ output.error = ""
    /\ history.injury_saves < MaxInjurySaves
    /\ \E i \in FormPlayerChoices, g \in FormGamesMissed :
        LET in == [button |-> "Save Injury Record", player |-> i,
                   injury_type |-> "Ankle Sprain", games_missed |-> g, recurring |-> FALSE]
            s  == load_sample_data(db, rng)
            c1 == Fill(cache, s.db, SidebarAccessors \cup PageAccessors("Injury Tracker"))
            names_df == c1.get_all_players[1]
            d2 == [s.db EXCEPT !.injuries =
                       InsertRow(@, "injury_id", InjuryFormRow(names_df, in))]
        IN  /\ i <= Len(names_df)
            /\ \E res \in ScriptRun("Injury Tracker", in, d2, s.rng, AfterClear(c1)) :
                   Finish([res EXCEPT !.seeded = s.seeded \/ res.seeded],
                          "Injury Tracker", in, <<0, 1>>)

Init ==
    /\ db = EmptyDb /\ cache = EmptyCache /\ rng \in RngStates /\ page = ""
    /\ inputs = NoInputs /\ output = NoOutput /\ history = NoHistory
    /\ ConcIdle /\ NlIdle
    /\ row = ZeroRow /\ value_index = NoValue
    /\ players_df = EmptyFrame /\ stats_df = EmptyFrame /\ contracts_df = EmptyFrame
    /\ merged = EmptyFrame

Next ==
    \/ RenderDashboard \/ RenderPlayerDatabase \/ RenderAnalytics
    \/ RenderContractManager \/ RenderInjuryTracker \/ RenderSqlChat
    \/ SaveContract \/ SaveInjury

Spec == Init /\ [][Next]_vars

-----------------------------------------------------------------------------
(* Properties of the session.                                              *)

\* text occurs in name when capitals and small letters are not told apart
OccursIn(text, name) ==
    \E i \in 0..(Len(name) - Len(text)) :
        \A k \in 1..Len(text) : LowerChar(name[i + k]) = LowerChar(text[k])

\* the rows of full_df that pass the three filters of the Player Database
ExpectedListing(full_df, in) ==
    LET Passes(r) ==
            /\ in.search_name = << >> \/ OccursIn(in.search_name, r.name)
            /\ in.filter_position = "All" \/ r.position = in.filter_position
            /\ in.filter_team = "All" \/ r.team = in.filter_team
    IN  SelectSeq(full_df, Passes)

\* C11: after a run of the Player Database page the rows shown are exactly
\* the rows of the joined table that satisfy every active filter
C11_ListingIsFiltered ==
    page = "Player Database" =>
        /\ output.error = ""
        /\ output.found = <<Len(ExpectedListing(output.frame, inputs))>>
        /\ output.listing = ExpectedListing(output.frame, inputs)

\* the Player Database page run over the seeded tables with a name typed in
C11_Reached ==
    /\ page = "Player Database" /\ inputs.search_name # << >>
    /\ Len(output.frame) >= 15
    /\ output.error = "KeyError"

\* the number of rows each table holds after seeding and the saves so far
C12_Counts ==
    /\ history.seedings <= 1
    /\ db.players # << >> =>
        /\ history.seedings = 1
        /\ Len(db.players) = 15
        /\ Len(db.contracts) = 15 + history.contract_saves
        /\ Len(db.performance_stats) = 15
        /\ Len(db.injuries) = 4 + history.injury_saves
        /\ Len(db.teams) = 5

\* a run without a save that finds players non-empty leaves every table as it is
C12_NoReseed ==
    (/\ db.players # << >>
     /\ history'.contract_saves = history.contract_saves
     /\ history'.injury_saves = history.injury_saves) => db' = db

\* C12: over the runs of one session, saves included, the sample data is
\* inserted once (15 players, 15 seed contracts, 15 stat rows, 4 injuries,
\* 5 teams), and a run that finds players non-empty changes no table
C12_SeededOnce == []C12_Counts /\ [][C12_NoReseed]_vars

\* a page run again after a contract was saved on the seeded database
C12_Rerun ==
    /\ history.seedings = 1 /\ history.contract_saves = 1
    /\ page = "Dashboard" /\ Len(db.contracts) = 16

\* table t after the step is table t before it followed by n new rows
Appended(t, n) ==
    /\ Len(db'[t]) = Len(db[t]) + n
    /\ \A i \in 1..Len(db[t]) : db'[t][i] = db[t][i]

\* what a step does to the seeded tables: a Save Contract adds one contracts
\* row, a Save Injury Record one injuries row, and nothing else changes
C13_Step ==
    db.players # << >> =>
        /\ Appended("contracts", history'.contract_saves - history.contract_saves)
        /\ Appended("injuries", history'.injury_saves - history.injury_saves)
        /\ \A t \in {"players", "performance_stats", "teams"} : db'[t] = db[t]
        /\ Len(db'.contracts) = 15 + history'.contract_saves
        /\ Len(db'.injuries) = 4 + history'.injury_saves

\* C13: contracts and injuries are append-only: each Save adds exactly one
\* row to its table, no row is updated or deleted, the other tables are
\* unchanged, and after n saves a table holds its seed rows plus n
C13_AppendOnly == [][C13_Step]_vars

\* a contract and an injury record have been saved
C13_Saved ==
    /\ history.contract_saves = 1 /\ history.injury_saves = 1
    /\ Len(db.contracts) = 16 /\ Len(db.injuries) = 5
    /\ db.contracts[16].contract_id = 16 /\ db.injuries[5].injury_id = 5

\* C16: between runs of one session every cached accessor result equals the
\* content of its table, so the next run reads nothing stale
C16_CacheFresh ==
    \A a \in DOMAIN cache :
        cache[a] # NoValue => cache[a][1] = db[TableOf[a]]

\* the contracts accessor cached again after a save changed its table
C16_RefilledAfterSave ==
    /\ history.contract_saves = 1
    /\ cache.get_contracts # NoValue /\ Len(cache.get_contracts[1]) = 16
    /\ cache.get_player_stats # NoValue

\* the number of rows of a table or frame that belong to player pid
RowsOf(rows, pid) == Cardinality({i \in 1..Len(rows) : rows[i].player_id = pid})

\* the sum of annual_salary over the contracts of players with a stat row
RECURSIVE PayrollOf(_, _)
PayrollOf(contracts, stats) ==
    IF contracts = << >> THEN 0
    ELSE RowsOf(stats, Head(contracts).player_id) * Head(contracts).annual_salary
         + PayrollOf(Tail(contracts), stats)

\* C17: a player with s stat rows and c contract rows has s * c rows in the
\* joined table (none when s or c is 0), so a seeded player with k saved
\* contracts is listed 1 + k times by the unfiltered Player Database and
\* the Dashboard's Total Payroll counts each of the salaries
C17_JoinedRows ==
    /\ page \in {"Dashboard", "Player Database", "Analytics"} =>
           \A i \in 1..Len(db.players) :
               LET pid == db.players[i].player_id
               IN  RowsOf(output.frame, pid)
                       = RowsOf(db.performance_stats, pid) * RowsOf(db.contracts, pid)
    /\ page = "Dashboard" =>
           output.payroll = <<PayrollOf(db.contracts, db.performance_stats)>>
    /\ (/\ page = "Player Database" /\ inputs.search_name = << >>
        /\ inputs.filter_position = "All" /\ inputs.filter_team = "All") =>
           \A i \in 1..Len(db.players) :
               LET pid == db.players[i].player_id
               IN  RowsOf(output.listing, pid)
                       = 1 + RowsOf(SubSeq(db.contracts, 16, Len(db.contracts)), pid)

\* the unfiltered Player Database run after a contract was saved for a player
C17_ListedAfterSave ==
    /\ page = "Player Database" /\ inputs.search_name = << >>
    /\ inputs.filter_position = "All" /\ history.contract_saves = 1
    /\ RowsOf(output.frame, db.contracts[16].player_id) = 2
    /\ output.listing = << >>

\* C19: every contracts row, seeded or saved, has annual_salary >= 1 (seed
\* rows in [25, 52], saved rows in [1, 60]; amounts in tenths) and
\* total_value = annual_salary * the contract's length in years, and the
\* Analytics page never divides by a zero salary
C19_ContractAmounts ==
    /\ \A i \in 1..Len(db.contracts) :
           LET c == db.contracts[i]
           IN  /\ c.annual_salary >= 10
               /\ i <= 15 => c.annual_salary \in 250..520
               /\ i > 15 => c.annual_salary \in 10..600
               /\ c.total_value * 365 = c.annual_salary * (c.end_date - c.start_date)
    /\ page = "Analytics" =>
           \A i \in 1..Len(output.frame) :
               /\ output.frame[i].annual_salary # 0
               /\ output.frame[i].efficiency_rating.kind = "finite"

\* the Analytics page rating a saved contract of the smallest salary
C19_RatedSavedContract ==
    /\ page = "Analytics" /\ Len(db.contracts) = 16
    /\ db.contracts[16].annual_salary = 10
    /\ db.contracts[16].total_value = 50
    /\ \E i \in 1..Len(output.frame) :
           /\ output.frame[i].contract_id = 16
           /\ output.frame[i].efficiency_rating.kind = "finite"

-----------------------------------------------------------------------------
(* Two sessions starting up at the same time.  Every script run opens its  *)
(* own connection (init_database, line 55), so the statements of           *)
(* load_sample_data of the two runs interleave, one statement at a time.   *)
(* db is the committed content of the file, pending[s] the tables as the   *)
(* open transaction of session s sees them, lock the session holding       *)
(* SQLite's write lock (0: none).                                          *)

MaxSessions == 2
Sessions == 1..MaxSessions

\* what the start-up of a session leaves alone
idleVars == <<viVars, effVars, nlVars, cache, page, inputs, output, history>>

\* line 150-152: SELECT COUNT(*) FROM players reads the committed rows
Check(s) ==
    /\ pc[s] = "check"
    /\ pc' = [pc EXCEPT ![s] = IF Len(db.players) > 0 THEN "done" ELSE "players"]
    /\ UNCHANGED <<db, rng, pending, lock, idleVars>>

\* line 173: the first INSERT opens the transaction and takes the write lock
InsertPlayers(s) ==
    /\ pc[s] = "players" /\ lock = 0
    /\ lock' = s
    /\ pending' = [pending EXCEPT ![s] =
                       [db EXCEPT !.players = InsertOrIgnore(@, SeedPlayers)]]
    /\ pc' = [pc EXCEPT ![s] = "contracts"]
    /\ UNCHANGED <<db, rng, idleVars>>

\* line 173 when the other session keeps the write lock longer than the
\* connection's timeout: sqlite3.OperationalError, database is locked
LockTimeout(s) ==
    /\ pc[s] = "players" /\ lock \notin {0, s}
    /\ pc' = [pc EXCEPT ![s] = "failed"]
    /\ UNCHANGED <<db, rng, pending, lock, idleVars>>

\* lines 176-195
InsertContracts(s) ==
    /\ pc[s] = "contracts"
    /\ pending' = [pending EXCEPT ![s].contracts =
                       InsertAuto(@, "contract_id", SeedContracts(rng))]
    /\ rng' = RngAt(rng, Len(SeedPlayers))
    /\ pc' = [pc EXCEPT ![s] = "stats"]
    /\ UNCHANGED <<db, lock, idleVars>>

\* lines 198-221
InsertStats(s) ==
    /\ pc[s] = "stats"
    /\ pending' = [pending EXCEPT ![s].performance_stats =
                       InsertAuto(@, "stat_id", SeedStats)]
    /\ pc' = [pc EXCEPT ![s] = "injuries"]
    /\ UNCHANGED <<db, rng, lock, idleVars>>

\* lines 224-234
InsertInjuries(s) ==
    /\ pc[s] = "injuries"
    /\ pending' = [pending EXCEPT ![s].injuries =
                       InsertAuto(@, "injury_id", SeedInjuries)]
    /\ pc' = [pc EXCEPT ![s] = "teams"]
    /\ UNCHANGED <<db, rng, lock, idleVars>>

\* lines 237-248
InsertTeams(s) ==
    /\ pc[s] = "teams"
    /\ pending' = [pending EXCEPT ![s].teams = InsertAuto(@, "team_id", SeedTeams)]
    /\ pc' = [pc EXCEPT ![s] = "commit"]
    /\ UNCHANGED <<db, rng, lock, idleVars>>

\* line 250: conn.commit()
Commit(s) ==
    /\ pc[s] = "commit"
    /\ db' = pending[s]
    /\ lock' = 0
    /\ pc' = [pc EXCEPT ![s] = "done"]
    /\ UNCHANGED <<rng, pending, idleVars>>

InitConc ==
    /\ db = EmptyDb /\ cache = EmptyCache /\ rng \in RngStates /\ page = ""
    /\ inputs = NoInputs /\ output = NoOutput /\ history = NoHistory
    /\ pc = [s \in Sessions |-> "check"]
    /\ pending = [s \in Sessions |-> EmptyDb]
    /\ lock = 0
    /\ NlIdle
    /\ row = ZeroRow /\ value_index = NoValue
    /\ players_df = EmptyFrame /\ stats_df = EmptyFrame /\ contracts_df = EmptyFrame
    /\ merged = EmptyFrame

NextConc ==
    \E s \in Sessions :
        \/ Check(s) \/ InsertPlayers(s) \/ LockTimeout(s) \/ InsertContracts(s)
        \/ InsertStats(s) \/ InsertInjuries(s) \/ InsertTeams(s) \/ Commit(s)

SpecConc == InitConc /\ [][NextConc]_vars

\* C15: whenever sessions start up together, in every interleaving the
\* committed tables hold the sample data once: 15 players, 15 contracts,
\* 15 stat rows, 4 injuries and 5 teams
C15_SeededOnceConcurrently ==
    db.players # << >> =>
        /\ Len(db.players) = 15 /\ Len(db.contracts) = 15
        /\ Len(db.performance_stats) = 15
        /\ Len(db.injuries) = 4 /\ Len(db.teams) = 5

\* both sessions saw an empty players table and both committed their inserts
C15_BothSeeded ==
    /\ \A s \in Sessions : pc[s] = "done" /\ pending[s] # EmptyDb
    /\ Len(db.players) = 15 /\ Len(db.contracts) = 30

-----------------------------------------------------------------------------
(* Script runs in which one call raises: sqlite3.connect, a query of a     *)
(* cached accessor, the SQL Chat query, an INSERT of a Save button, or the *)
(* image request.  inputs.fault names the call that raised, output.error   *)
(* the exception that ended the script run, output.message the text the    *)
(* call site displayed, output.calls how often the call was made.          *)

\* no call site has a try block
Handler_none ==
    [connect |-> "", read |-> "", insert |-> "", query |-> "", image |-> ""]

\* what the except clause around each call does, "" for a call in no try
\* block: line 55, lines 290-313, lines 697 and 772, lines 815-827, 259-264
Handler ==
    [connect |-> "", read |-> "", insert |-> "", query |-> "st.error", image |-> "pass"]

\* what is displayed, out so far, when the call at site raises exc
Raise(site, exc, out) ==
    CASE Handler[site] = ""         -> [out EXCEPT !.error = exc, !.calls = 1]
      [] Handler[site] = "st.error" -> [out EXCEPT !.message = "Error executing query",
                                                   !.calls = 1]
      [] Handler[site] = "pass"     -> [out EXCEPT !.calls = 1]

\* the accessor calls of a run of page pg in the order they are made
CallOrder(pg) ==
    <<"get_all_players", "get_contracts", "get_injuries">> \o
    (CASE pg \in {"Dashboard", "Player Database", "Analytics"} ->
              <<"get_all_players", "get_player_stats", "get_contracts">>
       [] pg = "Contract Manager" -> <<"get_contracts", "get_all_players">>
       [] pg = "Injury Tracker"   -> <<"get_injuries", "get_all_players">>
       [] OTHER -> << >>)

\* questions typed into the SQL Chat text area
ChatQuestions == { <<"t", "o", "p", " ", "5">>, <<"h", "i">> }

\* a failed step leaves the tables and the counters of the session alone
Failed(pg, in, out, c) ==
    /\ page' = pg /\ inputs' = in /\ output' = out /\ cache' = c
    /\ UNCHANGED <<history, viVars, effVars, nlVars, concVars>>

\* line 332 with sqlite3.connect raising at line 55
FailConnect ==
    \E pg \in Pages :
        /\ Failed(pg, [button |-> "", fault |-> "connect"],
                  Raise("connect", "OperationalError", NoOutput), cache)
        /\ UNCHANGED <<db, rng>>

\* the k-th accessor call of the run has nothing cached and its query raises;
\* the calls before it have returned and are cached
FailRead ==
    \E pg \in Pages, k \in 1..5 :
        LET s == load_sample_data(db, rng)
            order == CallOrder(pg)
            before == {order[j] : j \in 1..(k - 1)}
        IN  /\ k <= Len(order)
            /\ cache[order[k]] = NoValue /\ order[k] \notin before
            /\ db' = s.db /\ rng' = s.rng
            /\ page' = pg /\ inputs' = [button |-> "", fault |-> "read"]
            /\ output' = Raise("read", "DatabaseError", NoOutput)
            /\ cache' = Fill(cache, s.db, before)
            /\ history' = [history EXCEPT
                               !.seedings = @ + (IF s.seeded THEN 1 ELSE 0)]
            /\ UNCHANGED <<viVars, effVars, nlVars, concVars>>

\* the Save Contract button with cursor.execute raising at line 697
FailSaveContract ==
    /\ page = "Contract Manager" /\ output.error = "" /\ db.players # << >>
    /\ \E i \in FormPlayerChoices, y \in FormYears, sal \in FormSalaries :
        LET in == [button |-> "Save Contract", player |-> i, years |-> y,
                   annual_salary |-> sal, start_date |-> Today,
                   contract_type |-> "Max Contract", fault |-> "insert"]
            c1 == Fill(cache, db, SidebarAccessors \cup PageAccessors("Contract Manager"))
        IN  \E o \in show_contract_manager(Frames(cache, db), in) :
                /\ Failed("Contract Manager", in, Raise("insert", "OperationalError", o), c1)
                /\ UNCHANGED <<db, rng>>

\* the Save Injury Record button with cursor.execute raising at line 772
FailSaveInjury ==
    /\ page = "Injury Tracker" /\ output.error = "" /\ db.players # << >>
    /\ \E i \in FormPlayerChoices, g \in FormGamesMissed :
        LET in == [button |-> "Save Injury Record", player |-> i,
                   injury_type |-> "Ankle Sprain", games_missed |-> g,
                   recurring |-> FALSE, fault |-> "insert"]
            c1 == Fill(cache, db, SidebarAccessors \cup PageAccessors("Injury Tracker"))
        IN  \E o \in show_injury_tracker(Frames(cache, db), in) :
                /\ Failed("Injury Tracker", in, Raise("insert", "OperationalError", o), c1)
                /\ UNCHANGED <<db, rng>>

\* the Search button with pd.read_sql_query raising at line 816
FailSearch ==
    /\ page = "SQL Chat" /\ output.error = "" /\ db.players # << >>
    /\ \E q \in ChatQuestions :
        /\ Failed("SQL Chat", [button |-> "Search", user_query |-> q, fault |-> "query"],
                  Raise("query", "DatabaseError", NoOutput),
                  Fill(cache, db, SidebarAccessors))
        /\ UNCHANGED <<db, rng>>

\* get_player_image(player_id), lines 256-265, with requests.get raising
FailImage ==
    \E i \in 1..Len(SeedPlayers) :
        /\ Failed(page, [button |-> "", player_id |-> SeedPlayers[i].player_id,
                         fault |-> "image"],
                  [Raise("image", "ConnectionError", NoOutput) EXCEPT
                       !.image = IF Handler["image"] = "" THEN NoValue ELSE <<"None">>],
                  cache)
        /\ UNCHANGED <<db, rng>>

NextFail ==
    \/ RenderContractManager \/ RenderInjuryTracker \/ RenderSqlChat
    \/ FailConnect \/ FailRead \/ FailSaveContract \/ FailSaveInjury
    \/ FailSearch \/ FailImage

SpecFail == Init /\ [][NextFail]_vars

\* the call that raised in the last step, "" when none did
Fault == IF "fault" \in DOMAIN inputs THEN inputs.fault ELSE ""

\* C14 as stated: every failure of a connection, a query or the image fetch
\* is caught at the call site and shown as an inline message, is not
\* retried and does not propagate out of the page
C14_Original ==
    Fault # "" => output.error = "" /\ output.message # "" /\ output.calls = 1

\* C14: only the SQL Chat query's failure is caught and shown as an inline
\* message; the image fetch's failure is caught and gives no image and no
\* message; a failed connection, accessor read or insert is not caught and
\* ends the script run with the exception; no failed call is made again
C14_OnlyChatQueryReported ==
    /\ Fault = "query" => output.error = "" /\ output.message = "Error executing query"
    /\ Fault = "image" =>
           output.error = "" /\ output.message = "" /\ output.image = <<"None">>
    /\ Fault \in {"connect", "read", "insert"} =>
           output.error # "" /\ output.message = ""
    /\ Fault # "" => output.calls = 1

\* a failed SQL Chat query reported on the page
C14_ChatErrorShown ==
    /\ Fault = "query" /\ page = "SQL Chat" /\ inputs.user_query # << >>
    /\ output.message = "Error executing query" /\ output.error = ""

\* a failed insert that ends the run: no row added, no message
C14_InsertPropagates ==
    /\ Fault = "insert" /\ inputs.button = "Save Contract"
    /\ output.error = "OperationalError" /\ Len(db.contracts) = 15

-----------------------------------------------------------------------------
(* The SQL Chat page of a session over the seeded database: the user types *)
(* a question and presses Search; every press is one run of the script.    *)

\* a run of the script with the SQL Chat page selected, lines 330-364:
\* load_sample_data, the sidebar's accessors, then the page
ChatRun(button) ==
    LET s == load_sample_data(db, rng)
    IN  /\ db' = s.db /\ rng' = s.rng
        /\ cache' = Fill(cache, s.db, SidebarAccessors)
        /\ history' = [history EXCEPT !.seedings = @ + (IF s.seeded THEN 1 ELSE 0)]
        /\ page' = "SQL Chat" /\ inputs' = [button |-> button] /\ output' = NoOutput
        /\ UNCHANGED <<user_query, nfrag, viVars, effVars, concVars>>

\* lines 807-827: the question is translated and pd.read_sql_query runs the
\* SELECT, which reads the tables
ChatSearch ==
    /\ page = "SQL Chat" /\ user_query # << >>
    /\ sql_query' = <<translate_natural_to_sql(user_query)>>
    /\ warning' = FALSE
    /\ ChatRun("Search")

\* lines 828-829: no question, no query
ChatSearchEmpty ==
    /\ page = "SQL Chat" /\ user_query = << >>
    /\ sql_query' = NoQuery
    /\ warning' = TRUE
    /\ ChatRun("Search")

\* the session has opened the SQL Chat page on a fresh database
InitChat ==
    /\ db = load_sample_data(EmptyDb, 0).db
    /\ rng = load_sample_data(EmptyDb, 0).rng
    /\ cache = Fill(EmptyCache, db, SidebarAccessors)
    /\ page = "SQL Chat" /\ inputs = NoInputs /\ output = NoOutput
    /\ history = [NoHistory EXCEPT !.seedings = 1]
    /\ ConcIdle /\ NlIdle
    /\ row = ZeroRow /\ value_index = NoValue
    /\ players_df = EmptyFrame /\ stats_df = EmptyFrame /\ contracts_df = EmptyFrame
    /\ merged = EmptyFrame

NextChat == TypeQuestion \/ ClearQuestion \/ ChatSearch \/ ChatSearchEmpty

SpecChat == InitChat /\ [][NextChat]_vars

\* text is made of decimal digits and stands in the question as typed
DigitsOfQuestion(text) ==
    /\ text # << >>
    /\ \A i \in 1..Len(text) : text[i] \in Digits
    /\ \E i \in 0..(Len(user_query) - Len(text)) :
           \A k \in 1..Len(text) : user_query[i + k] = text[k]

\* the query shown is one of the six statements, and what is written into
\* it is a non-empty string of digits (the scorer query's own 5 included)
C18_FixedSelect ==
    Shown =>
        \/ Sql \in {RecurringQuery, AverageQuery, DefaultQuery}
        \/ /\ <<Sql.head, Sql.tail>> \in {<<SalaryHead, SalaryTail>>,
                                          <<PointGuardHead, PointGuardTail>>}
           /\ DigitsOfQuestion(Sql.param)
        \/ /\ Sql.head = ScorerHead /\ Sql.tail = ""
           /\ Sql.param = <<"5">> \/ DigitsOfQuestion(Sql.param)

\* C18: translate_natural_to_sql returns one of six fixed SELECT statements
\* in which the only text of the question is a non-empty string of decimal
\* digits, and no press of Search, with or without a question, changes a
\* table
C18_ChatReadsOnly == []C18_FixedSelect /\ [][db' = db]_vars

\* a search whose number went into the query, over the seeded tables
C18_Searched ==
    /\ Shown /\ inputs.button = "Search" /\ Sql.head = SalaryHead
    /\ Sql.param = <<"4", "0">> /\ Len(db.players) = 15

\* a search with an empty text area: a warning and no query
C18_SearchedEmpty ==
    /\ inputs.button = "Search" /\ warning /\ ~Shown /\ Len(db.contracts) = 15

====
